---- MODULE Spec2Model ----
(***************************************************************************)
(* Model of tools/monitor_fuzzing.py: class FuzzerMonitor.                 *)
(*                                                                         *)
(* One scheduler (sched.scheduler) drives check_fuzzer_status.  A state of *)
(* the model is a state of the program between two handler calls: the      *)
(* fields of the monitor, the scheduler's queue, the clock, and what the   *)
(* most recent call of check_fuzzer_status did (what it read, which rows   *)
(* it logged, which signals it sent, whether it raised).                   *)
(***************************************************************************)
EXTENDS Integers, Sequences, FiniteSets, TLC

\* ---------------------------------------------------------------- bounds
\* --max-time-without-finds and --check-interval (argparse, type=int)
max_time_without_finds == 1
check_interval == 2
\* largest last_find timestamp read from the status file
MaxLastFind == 1
\* the most processes pgrep finds
MaxPid == 2
\* the longest a call of check_fuzzer_status takes, in clock units
MaxCheckDur == 1
\* the run is followed for MaxTicks calls of the handler
MaxTicks == 3
\* the most lines of a status file whose parsing is followed
MaxLines == 2

\* ------------------------------------------------------ program constants
\* run(): self.scheduler.enter(10, 1, self.check_fuzzer_status)
InitialDelay == 10
Priority == 1

\* ------------------------------------------------------- Python values
\* A value stored by read_fuzzer_file is an int (the trimmed text is all
\* digits) or a str (anything else); dict.get of a missing key gives None.
IntV(n) == [t |-> "int", n |-> n, s |-> ""]
StrV(s) == [t |-> "str", n |-> 0, s |-> s]
NoneV == [t |-> "None", n |-> 0, s |-> ""]
\* marks a key that is not in the dict
Absent == [t |-> "absent", n |-> 0, s |-> ""]

\* The strings of the model, none all digits: "" (a line "key:"), "x"
\* (text int() rejects), "-5" and "+9" (signed text int() accepts).

\* int(v): raises ValueError on text that is not an integer literal
IntRaises(v) == v.t = "str" /\ v.s \notin {"-5", "+9"}
PyInt(v) ==
    IF v.t = "int" THEN v.n
    ELSE IF v.s = "-5" THEN -5
    ELSE IF v.s = "+9" THEN 9
    ELSE 0

\* truth value of an int or str
Truthy(v) ==
    CASE v.t = "int" -> v.n # 0
      [] v.t = "str" -> v.s # ""
      [] OTHER -> FALSE

\* ------------------------------------------------------- the stats dict
CountKeys == <<"corpus_count", "unique_crashes", "unique_hangs", "execs_done">>
Keys == {"time_wo_finds", "last_find", "corpus_count", "unique_crashes",
         "unique_hangs", "execs_done", "other"}

\* self.last_fuzzer_data = {}
EmptyDict == [isNone |-> FALSE, d |-> [k \in Keys |-> Absent]]
\* read_fuzzer_file: return None
NoneData == [isNone |-> TRUE, d |-> [k \in Keys |-> Absent]]

Dict(tw, lf, c) ==
    [isNone |-> FALSE,
     d |-> [k \in Keys |->
              IF k = "time_wo_finds" THEN tw
              ELSE IF k = "last_find" THEN lf
              ELSE c[k]]]

\* The status files followed by the model: every time_wo_finds with every
\* last_find and no other key, and every shape of the other keys with
\* neither of the two.
TwVals == {Absent} \cup {IntV(n) : n \in 0..(max_time_without_finds + 1)}
            \cup {StrV("x"), StrV("+9")}
LfVals == {Absent} \cup {IntV(n) : n \in 0..MaxLastFind}
            \cup {StrV(""), StrV("x")}
NoCounts == [k \in Keys |-> Absent]
CountProfiles ==
    {[k \in Keys |-> IntV(5)], [NoCounts EXCEPT !["other"] = StrV("x")]}
      \cup {[NoCounts EXCEPT ![CountKeys[i]] = v] :
              i \in 1..4, v \in {IntV(5), StrV("x"), StrV("-5")}}
Snapshots ==
    {Dict(tw, lf, NoCounts) : tw \in TwVals, lf \in LfVals}
      \cup {Dict(Absent, Absent, c) : c \in CountProfiles}

\* read_fuzzer_file returns None (FileNotFoundError, any other Exception)
\* or the dict it parsed.
ReadOutcomes == {NoneData} \cup Snapshots

\* what it returns once the fuzzer is quiet: the file is there and its
\* time_wo_finds is an int above the threshold
QuietOutcomes ==
    {data \in Snapshots :
        /\ data.d["time_wo_finds"].t = "int"
        /\ data.d["time_wo_finds"].n > max_time_without_finds}

\* -------------------------------------------------------- read_fuzzer_file
\* Text is a sequence of characters.  " " stands for the white space
\* str.strip removes, "0" and "1" for the decimal digits, "2^" for a digit
\* that is not decimal (a superscript two: str.isdigit accepts it, int()
\* does not).
IsSpace(c) == c = " "
IsDecimal(c) == c \in {"0", "1"}
IsDigit(c) == c \in {"0", "1", "2^"}

RECURSIVE LStrip(_)
LStrip(text) ==
    IF text # <<>> /\ IsSpace(Head(text)) THEN LStrip(Tail(text)) ELSE text
RECURSIVE RStrip(_)
RStrip(text) ==
    IF text # <<>> /\ IsSpace(text[Len(text)])
    THEN RStrip(SubSeq(text, 1, Len(text) - 1))
    ELSE text
\* str.strip()
Strip(text) == RStrip(LStrip(text))

\* ":" in line
HasColon(text) == \E i \in 1..Len(text) : text[i] = ":"
FirstColon(text) ==
    CHOOSE i \in 1..Len(text) :
        text[i] = ":" /\ \A j \in 1..(i - 1) : text[j] # ":"
\* str.split(":", 1) of a text with a colon
SplitOnce(text) ==
    [key |-> SubSeq(text, 1, FirstColon(text) - 1),
     value |-> SubSeq(text, FirstColon(text) + 1, Len(text))]

\* str.isdigit()
StrIsDigit(text) == text # <<>> /\ \A i \in 1..Len(text) : IsDigit(text[i])

\* int(text): white space around the digits is allowed, any character but a
\* decimal digit raises ValueError
IntOfRaises(text) ==
    Strip(text) = <<>> \/ \E i \in 1..Len(Strip(text)) : ~IsDecimal(Strip(text)[i])
RECURSIVE DecimalValue(_)
DecimalValue(digits) ==
    IF digits = <<>> THEN 0
    ELSE 10 * DecimalValue(SubSeq(digits, 1, Len(digits) - 1))
           + (IF digits[Len(digits)] = "1" THEN 1 ELSE 0)
IntOf(text) == DecimalValue(Strip(text))

\* the values of the dict: an int, or a str kept as its characters
PInt(n) == [t |-> "int", n |-> n, s |-> <<>>]
PStr(text) == [t |-> "str", n |-> 0, s |-> text]

\* fuzzer_stats = {}, and fuzzer_stats[key] = value
NoStats == [k \in {} |-> PInt(0)]
Put(stats, key, value) ==
    [k \in (DOMAIN stats) \cup {key} |-> IF k = key THEN value ELSE stats[k]]

\* the body of "for line in file": the dict after the line, or the
\* ValueError of int()
ParseLine(stats, line) ==
    IF ~HasColon(line) THEN [raised |-> "none", stats |-> stats]
    ELSE LET kv == SplitOnce(Strip(line))
         IN  IF StrIsDigit(Strip(kv.value))
             THEN IF IntOfRaises(kv.value)
                  THEN [raised |-> "ValueError", stats |-> stats]
                  ELSE [raised |-> "none",
                        stats |-> Put(stats, Strip(kv.key), PInt(IntOf(kv.value)))]
             ELSE [raised |-> "none",
                   stats |-> Put(stats, Strip(kv.key), PStr(Strip(kv.value)))]

RECURSIVE ParseLines(_, _)
ParseLines(stats, lines) ==
    IF lines = <<>> THEN [raised |-> "none", stats |-> stats]
    ELSE LET r == ParseLine(stats, Head(lines))
         IN  IF r.raised # "none" THEN r ELSE ParseLines(r.stats, Tail(lines))

\* what read_fuzzer_file returns: the dict, or None when open() or the
\* loop raised (except FileNotFoundError, except Exception)
NotRead == [ret |-> "unread", stats |-> NoStats]
read_fuzzer_file(f) ==
    IF f.open # "none" THEN [ret |-> "None", stats |-> NoStats]
    ELSE LET r == ParseLines(NoStats, f.lines)
         IN  IF r.raised # "none" THEN [ret |-> "None", stats |-> NoStats]
             ELSE [ret |-> "dict", stats |-> r.stats]

\* The lines of the status files followed: without a colon, with white
\* space around key and value, with an empty value, with colons in the
\* value, with the same key again, with digits of both kinds.
Lines ==
    {<<>>,
     <<"a">>,
     <<"a", ":", "1">>,
     <<" ", "a", " ", ":", " ", "1", "0", " ">>,
     <<"a", ":">>,
     <<"a", ":", "x">>,
     <<"a", ":", "1", ":", "0">>,
     <<"b", ":", "0", "1">>,
     <<"b", ":", "1", " ", "1">>,
     <<":", "1">>,
     <<"a", " ", "b", ":", "x", " ", "x">>,
     <<"a", ":", "2^">>,
     <<"b", ":", " ", "1", "2^">>}
RECURSIVE Texts(_)
Texts(n) ==
    IF n = 0 THEN {<<>>}
    ELSE Texts(n - 1) \cup {Append(t, l) : t \in Texts(n - 1), l \in Lines}
NoFile == [open |-> "FileNotFoundError", lines |-> <<>>]
Files ==
    {NoFile, [open |-> "PermissionError", lines |-> <<>>]}
      \cup {[open |-> "none", lines |-> t] : t \in Texts(MaxLines)}

\* ---------------------------------------------------------- the scheduler
Max(a, b) == IF a >= b THEN a ELSE b

\* sched.scheduler.enter(delay, priority, action) called at clock t: the
\* event is queued for t + delay, the queue ordered by (time, priority).
Before(e, f) ==
    \/ e.time < f.time
    \/ e.time = f.time /\ e.priority <= f.priority
enter(q, t, delay, priority, action) ==
    LET ev == [time |-> t + delay, priority |-> priority, action |-> action]
        k == Cardinality({i \in 1..Len(q) : Before(q[i], ev)})
    IN  SubSeq(q, 1, k) \o <<ev>> \o SubSeq(q, k + 1, Len(q))

\* ------------------------------------------------------- get_afl_fuzz_pids
\* check_output(["pgrep", "-f", "afl-fuzz"]): the pids pgrep printed, in
\* increasing order (the processes are numbered 1..n here, n >= 1);
\* CalledProcessError when pgrep exits non-zero (1: no process matched,
\* 2 and 3: error); FileNotFoundError when pgrep cannot be launched.
PgrepOutcomes ==
    {[exc |-> "none", pids |-> [i \in 1..n |-> i]] : n \in 1..MaxPid}
      \cup {[exc |-> e, pids |-> <<>>] : e \in {"CalledProcessError", "FileNotFoundError"}}

\* the value returned, or the exception that leaves the function
get_afl_fuzz_pids(pg) ==
    IF pg.exc = "none" THEN [raised |-> "none", pids |-> pg.pids]
    ELSE IF pg.exc = "CalledProcessError" THEN [raised |-> "none", pids |-> <<>>]
    ELSE [raised |-> pg.exc, pids |-> <<>>]

\* ------------------------------------------------------------ stop_fuzzer
\* for pid in pids: os.kill(pid, SIGTERM).  os.kill raises
\* ProcessLookupError for a pid in dead (the process has exited since
\* pgrep listed it); the exception leaves the loop.
RECURSIVE KillLoop(_, _, _)
KillLoop(pids, dead, sent) ==
    IF pids = <<>> THEN [raised |-> "none", kills |-> sent]
    ELSE IF Head(pids) \in dead
         THEN [raised |-> "ProcessLookupError", kills |-> Append(sent, Head(pids))]
         ELSE KillLoop(Tail(pids), dead, Append(sent, Head(pids)))

stop_fuzzer(pg, dead) ==
    LET found == get_afl_fuzz_pids(pg)
    IN  IF found.raised # "none"
        THEN [raised |-> found.raised, located |-> <<>>, kills |-> <<>>]
        ELSE LET k == KillLoop(found.pids, dead, <<>>)
             IN  [raised |-> k.raised, located |-> found.pids, kills |-> k.kills]

NotCalled == [raised |-> "none", located |-> <<>>, kills |-> <<>>]

\* ----------------------------------------------------- check_fuzzer_status
\* dict.get(key, default)
Get(data, key, default) == IF data.d[key] = Absent THEN default ELSE data.d[key]

\* bool(dict): the dict has a key
NonEmpty(data) == \E k \in Keys : data.d[k] # Absent

\* the comparison with the boundary value on the wrong side
ExceedsThreshold_AtLeast(time_wo_finds) == time_wo_finds >= max_time_without_finds

\* if time_wo_finds > self.max_time_without_finds
ExceedsThreshold(time_wo_finds) == time_wo_finds > max_time_without_finds

\* The formatting of the row: time.localtime(last_find) when last_find is
\* truthy, then int() of each count that is in the dict.  The exception
\* that leaves it, or "none".
FormatRaises(fuzzer_data) ==
    LET last_find == Get(fuzzer_data, "last_find", IntV(0))
    IN  IF Truthy(last_find) /\ last_find.t = "str" THEN "TypeError"
        ELSE IF \E i \in 1..4 : IntRaises(Get(fuzzer_data, CountKeys[i], IntV(0)))
             THEN "ValueError"
             ELSE "none"

\* a handler that tests "is not None" where the code tests the dict's truth
Report_IsNotNone(last_fuzzer_data, fuzzer_data) ==
    LET last_find == Get(fuzzer_data, "last_find", IntV(0))
    IN  IF ~last_fuzzer_data.isNone
             /\ last_find # Get(last_fuzzer_data, "last_find", NoneV)
        THEN [raised |-> "none", rows |-> <<"data">>]
        ELSE IF last_fuzzer_data.isNone
        THEN [raised |-> "AttributeError", rows |-> <<>>]
        ELSE IF Get(last_fuzzer_data, "last_find", NoneV) = NoneV
        THEN [raised |-> "none", rows |-> <<"header", "data">>]
        ELSE [raised |-> "none", rows |-> <<>>]

\* if self.last_fuzzer_data and last_find != self.last_fuzzer_data.get("last_find"):
\*     data row
\* elif self.last_fuzzer_data.get("last_find") == None:
\*     header row, data row
\* None has no get: the elif raises AttributeError.
Report(last_fuzzer_data, fuzzer_data) ==
    LET last_find == Get(fuzzer_data, "last_find", IntV(0))
    IN  IF last_fuzzer_data.isNone
        THEN [raised |-> "AttributeError", rows |-> <<>>]
        ELSE IF NonEmpty(last_fuzzer_data)
                  /\ last_find # Get(last_fuzzer_data, "last_find", NoneV)
        THEN [raised |-> "none", rows |-> <<"data">>]
        ELSE IF Get(last_fuzzer_data, "last_find", NoneV) = NoneV
        THEN [raised |-> "none", rows |-> <<"header", "data">>]
        ELSE [raised |-> "none", rows |-> <<>>]

\* a handler that logs the report before it tests the threshold
Evaluate_ReportFirst(last_fuzzer_data, fuzzer_data, stopped) ==
    LET none == [verdict |-> "continue", raised |-> "none", rows |-> <<>>,
                 stopCalled |-> FALSE, stop |-> NotCalled, returned |-> FALSE]
        time_wo_finds == Get(fuzzer_data, "time_wo_finds", IntV(0))
        r == Report(last_fuzzer_data, fuzzer_data)
    IN  IF fuzzer_data.isNone THEN none
        ELSE IF IntRaises(time_wo_finds)
        THEN [none EXCEPT !.verdict = "none", !.raised = "ValueError"]
        ELSE IF FormatRaises(fuzzer_data) # "none"
        THEN [none EXCEPT !.raised = FormatRaises(fuzzer_data)]
        ELSE IF r.raised # "none"
        THEN [none EXCEPT !.raised = r.raised]
        ELSE IF ExceedsThreshold(PyInt(time_wo_finds))
        THEN [none EXCEPT !.verdict = "stop", !.stopCalled = TRUE,
                          !.stop = stopped, !.raised = stopped.raised,
                          !.returned = TRUE, !.rows = r.rows]
        ELSE [none EXCEPT !.rows = r.rows]

\* The if/else of check_fuzzer_status, up to and without the two statements
\* that end it.  stopped is what stop_fuzzer does if it is called.
\* returned: the early return was taken.
Evaluate(last_fuzzer_data, fuzzer_data, stopped) ==
    LET none == [verdict |-> "continue", raised |-> "none", rows |-> <<>>,
                 stopCalled |-> FALSE, stop |-> NotCalled, returned |-> FALSE]
        time_wo_finds == Get(fuzzer_data, "time_wo_finds", IntV(0))
    IN  IF fuzzer_data.isNone THEN none
        ELSE IF IntRaises(time_wo_finds)
        THEN [none EXCEPT !.verdict = "none", !.raised = "ValueError"]
        ELSE IF ExceedsThreshold(PyInt(time_wo_finds))
        THEN [none EXCEPT !.verdict = "stop", !.stopCalled = TRUE,
                          !.stop = stopped, !.raised = stopped.raised,
                          !.returned = TRUE]
        ELSE IF FormatRaises(fuzzer_data) # "none"
        THEN [none EXCEPT !.raised = FormatRaises(fuzzer_data)]
        ELSE LET r == Report(last_fuzzer_data, fuzzer_data)
             IN  [none EXCEPT !.raised = r.raised, !.rows = r.rows]

\* a handler that keeps the last dict it read when the read fails
Remember_LastGood(last_fuzzer_data, fuzzer_data) ==
    IF fuzzer_data.isNone THEN last_fuzzer_data ELSE fuzzer_data

\* self.last_fuzzer_data = fuzzer_data
Remember(last_fuzzer_data, fuzzer_data) == fuzzer_data

\* ------------------------------------------------------------------ state
VARIABLES
    loop,              \* "Created", "Running", "Stopped" (run() returned),
                       \* "Crashed" (an exception left run())
    queue,             \* self.scheduler's queue
    now,               \* time.time()
    last_fuzzer_data,  \* self.last_fuzzer_data
    \* what the most recent call of check_fuzzer_status did
    fuzzer_data,       \* what read_fuzzer_file returned
    verdict,           \* "none", "continue" or "stop"
    raised,            \* the exception that left the call, or "none"
    rows,              \* the report rows logged
    stopCalled,        \* stop_fuzzer was called
    search,            \* how pgrep ended, "" when it was not run
    located,           \* what get_afl_fuzz_pids returned
    kills,             \* the pids os.kill(pid, SIGTERM) was called with
    \* the run so far
    ticks,             \* calls of check_fuzzer_status
    okReads,           \* calls whose read returned a dict
    headers,           \* header rows logged
    \* read_fuzzer_file on its own
    file,              \* the status file: how open() ends, and its lines
    parsed,            \* what read_fuzzer_file returned for it
    \* the fuzzer
    quiet              \* it has stopped finding paths for good: from now on
                       \* every read gives a time_wo_finds above the threshold

vars == <<loop, queue, now, last_fuzzer_data, fuzzer_data, verdict, raised,
          rows, stopCalled, search, located, kills, ticks, okReads, headers,
          file, parsed, quiet>>

\* a handler that queues the next check with the delay of the first one
Reschedule_InitialDelay(q, t) ==
    enter(q, t, InitialDelay, Priority, "check_fuzzer_status")

\* a handler that queues the next check twice
Reschedule_Twice(q, t) ==
    enter(enter(q, t, check_interval, Priority, "check_fuzzer_status"),
          t, check_interval, Priority, "check_fuzzer_status")

\* a handler that counts the interval from the moment the check was due
Reschedule_FromDueTime(q, t) ==
    enter(q, Max(now, Head(queue).time), check_interval, Priority,
          "check_fuzzer_status")

\* self.scheduler.enter(self.check_interval, 1, self.check_fuzzer_status)
Reschedule(q, t) == enter(q, t, check_interval, Priority, "check_fuzzer_status")

\* FuzzerMonitor.__init__
Init ==
    /\ loop = "Created"
    /\ queue = <<>>
    /\ now = 0
    /\ last_fuzzer_data = EmptyDict
    /\ fuzzer_data = NoneData
    /\ verdict = "none"
    /\ raised = "none"
    /\ rows = <<>>
    /\ stopCalled = FALSE
    /\ search = ""
    /\ located = <<>>
    /\ kills = <<>>
    /\ ticks = 0
    /\ okReads = 0
    /\ headers = 0
    /\ file = NoFile
    /\ parsed = NotRead
    /\ quiet = FALSE

\* run(): queue the first check, then self.scheduler.run()
Run ==
    /\ loop = "Created"
    /\ loop' = "Running"
    /\ queue' = enter(queue, now, InitialDelay, Priority, "check_fuzzer_status")
    /\ UNCHANGED <<now, last_fuzzer_data, fuzzer_data, verdict, raised, rows,
                   stopCalled, search, located, kills, ticks, okReads, headers,
                   file, parsed, quiet>>

\* Does the dict read make the handler call stop_fuzzer
CallsStop(fd) ==
    /\ ~fd.isNone
    /\ ~IntRaises(Get(fd, "time_wo_finds", IntV(0)))
    /\ ExceedsThreshold(PyInt(Get(fd, "time_wo_finds", IntV(0))))

\* scheduler.run() waits until the first event is due, takes it off the
\* queue and calls check_fuzzer_status, which takes dur clock units.  run()
\* returns when the queue is empty; an exception of the handler leaves it.
Tick ==
    /\ loop = "Running"
    /\ queue # <<>>
    /\ ticks < MaxTicks \/ quiet
    /\ \E fd \in IF quiet THEN QuietOutcomes ELSE ReadOutcomes,
          dur \in 0..MaxCheckDur :
       \E pg \in IF CallsStop(fd) THEN PgrepOutcomes
                 ELSE {[exc |-> "", pids |-> <<>>]} :
       \E dead \in SUBSET {pg.pids[i] : i \in 1..Len(pg.pids)} :
          LET t == Max(now, Head(queue).time) + dur
              r == Evaluate(last_fuzzer_data, fd, stop_fuzzer(pg, dead))
              ends == r.raised = "none" /\ ~r.returned
              q == IF ends THEN Reschedule(Tail(queue), t) ELSE Tail(queue)
          IN  /\ now' = t
              /\ fuzzer_data' = fd
              /\ verdict' = r.verdict
              /\ raised' = r.raised
              /\ rows' = r.rows
              /\ stopCalled' = r.stopCalled
              /\ search' = IF r.stopCalled THEN pg.exc ELSE ""
              /\ located' = r.stop.located
              /\ kills' = r.stop.kills
              /\ last_fuzzer_data' =
                    IF ends THEN Remember(last_fuzzer_data, fd)
                    ELSE last_fuzzer_data
              /\ queue' = q
              /\ loop' = IF r.raised # "none" THEN "Crashed"
                         ELSE IF q = <<>> THEN "Stopped"
                         ELSE "Running"
              /\ ticks' = ticks + 1
              /\ okReads' = IF fd.isNone THEN okReads ELSE okReads + 1
              /\ headers' = headers
                    + Cardinality({i \in 1..Len(r.rows) : r.rows[i] = "header"})
              /\ UNCHANGED <<file, parsed, quiet>>

Next == Run \/ Tick

Spec == Init /\ [][Next]_vars

\* The fuzzer goes quiet, at any moment of the run.
GoQuiet ==
    /\ ~quiet
    /\ quiet' = TRUE
    /\ UNCHANGED <<loop, queue, now, last_fuzzer_data, fuzzer_data, verdict,
                   raised, rows, stopCalled, search, located, kills, ticks,
                   okReads, headers, file, parsed>>

LiveNext == Run \/ Tick \/ GoQuiet

\* scheduler.run() calls every event when it is due: run() and the handler
\* are not postponed for ever.
LiveSpec == Init /\ [][LiveNext]_vars /\ WF_vars(Run) /\ WF_vars(Tick)

\* read_fuzzer_file on its own: any status file, read once
ParseInit ==
    /\ file \in Files
    /\ parsed = NotRead
    /\ quiet = FALSE
    /\ loop = "Created"
    /\ queue = <<>>
    /\ now = 0
    /\ last_fuzzer_data = EmptyDict
    /\ fuzzer_data = NoneData
    /\ verdict = "none"
    /\ raised = "none"
    /\ rows = <<>>
    /\ stopCalled = FALSE
    /\ search = ""
    /\ located = <<>>
    /\ kills = <<>>
    /\ ticks = 0
    /\ okReads = 0
    /\ headers = 0

ReadFile ==
    /\ parsed = NotRead
    /\ parsed' = read_fuzzer_file(file)
    /\ UNCHANGED <<loop, queue, now, last_fuzzer_data, fuzzer_data, verdict,
                   raised, rows, stopCalled, search, located, kills, ticks,
                   okReads, headers, file, quiet>>

ParseSpec == ParseInit /\ [][ReadFile]_vars

\* ================================================================ claims
\* int(fuzzer_data.get("time_wo_finds", 0))
TimeWoFinds(data) == PyInt(Get(data, "time_wo_finds", IntV(0)))

\* int() accepts the dict's time_wo_finds
TimeWoFindsReadable(data) == ~IntRaises(Get(data, "time_wo_finds", IntV(0)))

\* every value of the dict is an int, as the status file's writer produces
WellTyped(data) == \A k \in Keys : data.d[k].t \in {"absent", "int"}

\* the event the handler queues when it finishes at the clock value t
NextCheck(t) ==
    [time |-> t + check_interval, priority |-> Priority,
     action |-> "check_fuzzer_status"]

\* C1: after a tick that read a dict, the verdict is stop exactly when
\* time_wo_finds (0 if the key is missing) is greater than
\* max_time_without_finds; at or below it the verdict is continue and
\* stop_fuzzer has not been called.
C1_StopIffAboveThreshold ==
    (ticks > 0 /\ ~fuzzer_data.isNone /\ TimeWoFindsReadable(fuzzer_data)) =>
        /\ (verdict = "stop") <=> (TimeWoFinds(fuzzer_data) > max_time_without_finds)
        /\ (TimeWoFinds(fuzzer_data) <= max_time_without_finds) =>
              (verdict = "continue" /\ ~stopCalled /\ kills = <<>>)

\* a tick read time_wo_finds equal to the threshold and did not stop
C1_Witness ==
    /\ ticks > 0
    /\ ~fuzzer_data.isNone
    /\ fuzzer_data.d["time_wo_finds"] = IntV(max_time_without_finds)
    /\ verdict = "continue"
    /\ ~stopCalled

\* C2: the loop leaves Running only at a tick that read a dict whose
\* time_wo_finds is above the threshold, whichever earlier reads failed
\* (stated for failed reads and for dicts that hold ints only).
C2_LeavesRunningOnlyOnStop ==
    [][(/\ loop = "Running"
        /\ loop' # "Running"
        /\ (fuzzer_data'.isNone \/ WellTyped(fuzzer_data')))
       => (/\ ~fuzzer_data'.isNone
           /\ TimeWoFinds(fuzzer_data') > max_time_without_finds)]_vars

\* C3: on a continue tick that is not the first successful read, when the
\* dict read has the same last_find as the dict of the previous tick (an
\* int in both, or missing in both), no row is logged.
C3_NoRowWhenLastFindUnchanged ==
    [][(/\ ticks' = ticks + 1
        /\ okReads >= 1
        /\ ~last_fuzzer_data.isNone
        /\ ~fuzzer_data'.isNone
        /\ verdict' = "continue"
        /\ fuzzer_data'.d["last_find"].t \in {"absent", "int"}
        /\ fuzzer_data'.d["last_find"] = last_fuzzer_data.d["last_find"])
       => rows' = <<>>]_vars

\* C4: the first tick of the run whose read returns a dict (ints only) and
\* whose verdict is continue logs the header row and then one data row,
\* whatever number of failed reads came before.
C4_FirstReadLogsHeaderAndRow ==
    [][(/\ ticks' = ticks + 1
        /\ okReads = 0
        /\ ~fuzzer_data'.isNone
        /\ WellTyped(fuzzer_data')
        /\ verdict' = "continue")
       => rows' = <<"header", "data">>]_vars

\* C5: after a tick whose verdict is stop, stop_fuzzer has been called, the
\* loop is Stopped and the scheduler's queue is empty.
C5_StopEndsTheLoop ==
    (ticks > 0 /\ verdict = "stop") =>
        (stopCalled /\ loop = "Stopped" /\ queue = <<>>)

\* C6: after a tick whose read failed, no row has been logged, stop_fuzzer
\* has not been called, the verdict is continue, and the one queued event is
\* the next check, check_interval after the handler finished.
C6_FailedReadOnlyReschedules ==
    (ticks > 0 /\ fuzzer_data.isNone) =>
        /\ rows = <<>>
        /\ ~stopCalled
        /\ kills = <<>>
        /\ verdict = "continue"
        /\ raised = "none"
        /\ loop = "Running"
        /\ queue = <<NextCheck(now)>>

\* the read failed on the tick right after ticks that all read a dict
C6_Witness ==
    /\ ticks >= 2
    /\ okReads = ticks - 1
    /\ fuzzer_data.isNone
    /\ rows = <<>>
    /\ Len(queue) = 1

C8_StoredAfterEveryTick ==
    (ticks > 0 /\ verdict \in {"continue", "stop"} /\ raised = "none") =>
        last_fuzzer_data = fuzzer_data

\* C8 amended: a tick that ends with verdict continue stores what it read
\* (the dict, or None when the read failed); any other tick leaves
\* self.last_fuzzer_data as it was.
C8_StoredAfterContinueTick ==
    [][ticks' = ticks + 1 =>
         IF verdict' = "continue" /\ raised' = "none"
         THEN last_fuzzer_data' = fuzzer_data'
         ELSE last_fuzzer_data' = last_fuzzer_data]_vars

\* None has overwritten a dict read on an earlier tick
C8_Witness ==
    /\ okReads >= 1
    /\ fuzzer_data.isNone
    /\ verdict = "continue"
    /\ last_fuzzer_data = NoneData

\* C9: when the search for processes fails (pgrep exits non-zero, pgrep
\* cannot be launched), get_afl_fuzz_pids returns the empty list and no
\* exception leaves stop_fuzzer.
C9_SearchFailureNotEscalated ==
    (stopCalled /\ search # "none") => (located = <<>> /\ raised = "none")

\* C10: stop_fuzzer calls os.kill(pid, SIGTERM) exactly once for every pid
\* get_afl_fuzz_pids returned, whatever the outcome of each call.
C10_EveryLocatedPidSignalledOnce ==
    (stopCalled /\ search = "none") =>
        \A i \in 1..Len(located) :
            Cardinality({j \in 1..Len(kills) : kills[j] = located[i]}) = 1

\* the exit status of the program: an exception that leaves run() ends the
\* interpreter with status 1, the end of the script with 0
ExitCode == IF loop = "Crashed" THEN 1 ELSE 0

\* C11: a run in which a tick's verdict is stop ends Stopped, run() having
\* returned and the program exiting with status 0, whatever pgrep and
\* os.kill did.
C11_StopExitsCleanly ==
    (ticks > 0 /\ verdict = "stop") =>
        (loop = "Stopped" /\ raised = "none" /\ ExitCode = 0)

\* C12: run() queues the first check InitialDelay after the start, whatever
\* check_interval is, and every tick that ends with verdict continue (a
\* failed read included) queues the next check check_interval after the
\* moment the handler finished.
C12_CheckTimes ==
    /\ (loop = "Running" /\ ticks = 0) =>
          (Len(queue) = 1 /\ queue[1].time = InitialDelay)
    /\ (ticks > 0 /\ verdict = "continue" /\ raised = "none") =>
          (Len(queue) = 1 /\ queue[1].time = now + check_interval)

\* the first check took a clock unit: it was due at InitialDelay, finished
\* later, and the next one is queued check_interval after it finished
C12_Witness ==
    /\ ticks = 1
    /\ verdict = "continue"
    /\ raised = "none"
    /\ now > InitialDelay
    /\ queue[1].time = now + check_interval
    /\ queue[1].time > InitialDelay + check_interval

\* The mapping C13 describes: the lines with a colon, each split at its
\* first colon, key and value trimmed, the value an integer when it is
\* decimal digits only; for a key, the last line that has it.
ClaimValue(text) ==
    IF text # <<>> /\ (\A i \in 1..Len(text) : IsDecimal(text[i]))
    THEN PInt(DecimalValue(text))
    ELSE PStr(text)
ClaimKey(line) == Strip(SubSeq(line, 1, FirstColon(line) - 1))
ClaimMapping(lines) ==
    LET with == {i \in 1..Len(lines) : HasColon(lines[i])}
        last(k) == CHOOSE i \in with :
                      /\ ClaimKey(lines[i]) = k
                      /\ \A j \in with : ClaimKey(lines[j]) = k => j <= i
    IN  [k \in {ClaimKey(lines[i]) : i \in with} |->
           ClaimValue(Strip(SubSeq(lines[last(k)],
                                   FirstColon(lines[last(k)]) + 1,
                                   Len(lines[last(k)]))))]

\* C13: for every sequence of lines of a file that opens, read_fuzzer_file
\* returns the dict made of the lines with a colon, split at the first
\* colon, key and value trimmed, the value an int when it is decimal digits
\* only and the trimmed text otherwise, a later line overwriting an earlier
\* one with the same key.
C13_ParsesEveryFile ==
    (parsed # NotRead /\ file.open = "none") =>
        parsed = [ret |-> "dict", stats |-> ClaimMapping(file.lines)]

\* C14: once the fuzzer is quiet for good, the loop reaches Stopped with
\* stop_fuzzer called, whatever the earlier ticks read.
C14_QuietLeadsToStopped ==
    <>[]quiet => <>(loop = "Stopped" /\ stopCalled)

\* the data rows among the rows logged
DataRows(logged) == Cardinality({i \in 1..Len(logged) : logged[i] = "data"})

\* C15: on a continue tick that follows a tick whose read succeeded, when
\* the last_find read differs from the last_find of the previous dict (an
\* int or missing in each, not missing in both), exactly one data row is
\* logged.
C15_RowWhenLastFindChanged ==
    [][(/\ ticks' = ticks + 1
        /\ okReads >= 1
        /\ ~last_fuzzer_data.isNone
        /\ last_fuzzer_data.d["last_find"].t \in {"absent", "int"}
        /\ ~fuzzer_data'.isNone
        /\ WellTyped(fuzzer_data')
        /\ verdict' = "continue"
        /\ fuzzer_data'.d["last_find"] # last_fuzzer_data.d["last_find"])
       => DataRows(rows') = 1]_vars

\* C16: a tick whose verdict is stop logs no header row and no data row,
\* also when it is the first successful read of the run or when its
\* last_find differs from the previous dict's.
C16_StopTickLogsNothing ==
    [][(ticks' = ticks + 1 /\ verdict' = "stop")
       => (rows' = <<>> /\ headers' = headers)]_vars

\* a stop tick after two dicts were read, its last_find not the one stored
C16_Witness ==
    /\ verdict = "stop"
    /\ okReads >= 2
    /\ ~last_fuzzer_data.isNone
    /\ NonEmpty(last_fuzzer_data)
    /\ fuzzer_data.d["last_find"] # last_fuzzer_data.d["last_find"]
    /\ rows = <<>>

\* C17: the header row is logged at most once in a run, whatever the ticks
\* read (dicts, empty dicts, failed reads).
C17_HeaderAtMostOnce == headers <= 1

\* C18: whatever dict read_fuzzer_file returns (each key missing, an int or
\* a str), the tick ends with verdict continue or stop and no exception
\* leaves the handler (the previous read not having failed, and stop_fuzzer
\* left aside).
C18_AnyDictGivesVerdict ==
    (/\ ticks > 0
     /\ ~fuzzer_data.isNone
     /\ ~last_fuzzer_data.isNone
     /\ ~stopCalled)
    => (raised = "none" /\ verdict = "continue")

\* C19: a data row is logged only once a header row has been logged, and a
\* header row is always followed by a data row of the same tick.
C19_HeaderBeforeData ==
    /\ rows \in {<<>>, <<"data">>, <<"header", "data">>}
    /\ DataRows(rows) > 0 => headers >= 1

\* a data row alone, logged on a tick after the one that logged the header
C19_Witness ==
    /\ ticks >= 2
    /\ rows = <<"data">>
    /\ headers = 1

====
